---- MODULE Spec2Model ----
(***************************************************************************)
(* Plot-structure pipeline of the writing application: the template        *)
(* catalog and its seeding (server/init-plot-templates, server/data/       *)
(* plot-templates), the two IStorage implementations (server/storage), the *)
(* REST routes over them (server/routes) and the client's                  *)
(* "create from template" materialization.                                 *)
(***************************************************************************)
EXTENDS Integers, Sequences, FiniteSets, TLC

VARIABLES
  impl,          \* which IStorage implementation `storage` is: "db" | "mem"
  now,           \* wall clock read by new Date() / defaultNow()
  templates,     \* plot_structure_templates rows, in insertion order
  structures,    \* plot_structures: key -> row
  sections,      \* plot_structure_sections: key -> row
  structureSeq,  \* next serial / plotStructureId counter
  sectionSeq,    \* next serial / plotStructureSectionId counter
  client,        \* PlotStructureManager's createFromTemplate in flight
  editor,        \* PlotStructureView: its React state, timers and requests in flight
  resp,          \* last HTTP response sent
  seed,          \* the runs of initPlotTemplates: position, locals, log line
  calls,         \* calls of storage.updatePlotStructureSection that are in progress
  queryClient,   \* the shared queryClient and the editor components that patch it
  req,           \* the request the isAuthenticated middleware saw last
  hist           \* bookkeeping of the run: request and attempt counts

vars == <<impl, now, templates, structures, sections, structureSeq, sectionSeq,
          client, editor, resp, seed, calls, queryClient, req, hist>>

----------------------------------------------------------------------------
(* Bounds of the model *)

MaxStructures == 2
MaxSections == 2
MaxUpdates == 1
MaxAttempts == 1
MaxRuns == 3
MaxEdits == 2

Projects == {42, 7}

----------------------------------------------------------------------------
(* JSON text of a value.  Only the shape matters here: text produced by    *)
(* JSON.stringify parses back to the value, any other text fails to parse. *)

JSON_stringify(v) == [json |-> v]

JSON_parse(text) ==
  IF DOMAIN text = {"json"} THEN [ok |-> TRUE, value |-> text.json]
  ELSE [ok |-> FALSE, value |-> <<>>]

----------------------------------------------------------------------------
(* server/data/plot-templates.ts: the built-in templates, in array order    *)

tpl_freytag ==
  [templateType |-> "freytag", name |-> "Freytag's Pyramid", isDefault |-> TRUE,
   sections |-> JSON_stringify(<<
       [key |-> "exposition", title |-> "Exposition", order |-> 1],
       [key |-> "rising_action", title |-> "Rising Action", order |-> 2],
       [key |-> "climax", title |-> "Climax", order |-> 3],
       [key |-> "falling_action", title |-> "Falling Action", order |-> 4],
       [key |-> "resolution", title |-> "Resolution (Denouement)", order |-> 5] >>)]

tpl_hero_journey ==
  [templateType |-> "hero_journey", name |-> "The Hero's Journey", isDefault |-> TRUE,
   sections |-> JSON_stringify(<<
       [key |-> "ordinary_world", title |-> "Ordinary World", order |-> 1],
       [key |-> "call_to_adventure", title |-> "Call to Adventure", order |-> 2],
       [key |-> "refusal_of_call", title |-> "Refusal of the Call", order |-> 3],
       [key |-> "meeting_the_mentor", title |-> "Meeting the Mentor", order |-> 4],
       [key |-> "crossing_threshold", title |-> "Crossing the First Threshold", order |-> 5],
       [key |-> "tests_allies_enemies", title |-> "Tests, Allies, and Enemies", order |-> 6],
       [key |-> "approach_inmost_cave", title |-> "Approach to the Inmost Cave", order |-> 7],
       [key |-> "ordeal", title |-> "The Ordeal", order |-> 8],
       [key |-> "reward", title |-> "Reward (Seizing the Sword)", order |-> 9],
       [key |-> "road_back", title |-> "The Road Back", order |-> 10],
       [key |-> "resurrection", title |-> "Resurrection", order |-> 11],
       [key |-> "return_with_elixir", title |-> "Return with the Elixir", order |-> 12] >>)]

tpl_three_act ==
  [templateType |-> "three_act", name |-> "Three Act Structure", isDefault |-> TRUE,
   sections |-> JSON_stringify(<<
       [key |-> "act1_setup", title |-> "Act 1: Setup", order |-> 1],
       [key |-> "act1_inciting_incident", title |-> "Inciting Incident", order |-> 2],
       [key |-> "act1_turning_point", title |-> "First Plot Point", order |-> 3],
       [key |-> "act2_confrontation", title |-> "Act 2: Confrontation", order |-> 4],
       [key |-> "act2_midpoint", title |-> "Midpoint", order |-> 5],
       [key |-> "act2_turning_point", title |-> "Second Plot Point", order |-> 6],
       [key |-> "act3_resolution", title |-> "Act 3: Resolution", order |-> 7],
       [key |-> "act3_climax", title |-> "Climax", order |-> 8],
       [key |-> "act3_denouement", title |-> "Denouement", order |-> 9] >>)]

tpl_story_circle ==
  [templateType |-> "story_circle", name |-> "Dan Harmon's Story Circle", isDefault |-> TRUE,
   sections |-> JSON_stringify(<<
       [key |-> "you", title |-> "1. You (A character is in a zone of comfort)", order |-> 1],
       [key |-> "need", title |-> "2. Need (But they want something)", order |-> 2],
       [key |-> "go", title |-> "3. Go (They enter an unfamiliar situation)", order |-> 3],
       [key |-> "search", title |-> "4. Search (Adapt to it)", order |-> 4],
       [key |-> "find", title |-> "5. Find (Find what they wanted)", order |-> 5],
       [key |-> "take", title |-> "6. Take (Pay a heavy price for it)", order |-> 6],
       [key |-> "return", title |-> "7. Return (And go back to where they started)", order |-> 7],
       [key |-> "change", title |-> "8. Change (Having changed)", order |-> 8] >>)]

tpl_fichtean_curve ==
  [templateType |-> "fichtean_curve", name |-> "Fichtean Curve", isDefault |-> TRUE,
   sections |-> JSON_stringify(<<
       [key |-> "introduction", title |-> "Introduction", order |-> 1],
       [key |-> "crisis_1", title |-> "First Crisis", order |-> 2],
       [key |-> "crisis_2", title |-> "Second Crisis", order |-> 3],
       [key |-> "crisis_3", title |-> "Third Crisis", order |-> 4],
       [key |-> "crisis_4", title |-> "Fourth Crisis", order |-> 5],
       [key |-> "final_crisis", title |-> "Final Crisis", order |-> 6],
       [key |-> "climax", title |-> "Climax", order |-> 7],
       [key |-> "brief_resolution", title |-> "Brief Resolution", order |-> 8] >>)]

tpl_save_the_cat ==
  [templateType |-> "save_the_cat", name |-> "Save the Cat Beat Sheet", isDefault |-> TRUE,
   sections |-> JSON_stringify(<<
       [key |-> "opening_image", title |-> "1. Opening Image", order |-> 1],
       [key |-> "theme_stated", title |-> "2. Theme Stated", order |-> 2],
       [key |-> "setup", title |-> "3. Setup", order |-> 3],
       [key |-> "catalyst", title |-> "4. Catalyst", order |-> 4],
       [key |-> "debate", title |-> "5. Debate", order |-> 5],
       [key |-> "break_into_two", title |-> "6. Break into Two", order |-> 6],
       [key |-> "b_story", title |-> "7. B Story", order |-> 7],
       [key |-> "fun_and_games", title |-> "8. Fun and Games", order |-> 8],
       [key |-> "midpoint", title |-> "9. Midpoint", order |-> 9],
       [key |-> "bad_guys_close_in", title |-> "10. Bad Guys Close In", order |-> 10],
       [key |-> "all_is_lost", title |-> "11. All Is Lost", order |-> 11],
       [key |-> "dark_night_of_soul", title |-> "12. Dark Night of the Soul", order |-> 12],
       [key |-> "break_into_three", title |-> "13. Break into Three", order |-> 13],
       [key |-> "finale", title |-> "14. Finale", order |-> 14],
       [key |-> "final_image", title |-> "15. Final Image", order |-> 15] >>)]

tpl_seven_point ==
  [templateType |-> "seven_point", name |-> "Seven-Point Story Structure", isDefault |-> TRUE,
   sections |-> JSON_stringify(<<
       [key |-> "hook", title |-> "1. Hook", order |-> 1],
       [key |-> "plot_turn_1", title |-> "2. Plot Turn 1", order |-> 2],
       [key |-> "pinch_1", title |-> "3. Pinch 1", order |-> 3],
       [key |-> "midpoint", title |-> "4. Midpoint", order |-> 4],
       [key |-> "pinch_2", title |-> "5. Pinch 2", order |-> 5],
       [key |-> "plot_turn_2", title |-> "6. Plot Turn 2", order |-> 6],
       [key |-> "resolution", title |-> "7. Resolution", order |-> 7] >>)]

\* a template whose second entry repeats the key and the order of the first
tpl_freeform_repeatedKey ==
  [templateType |-> "freeform", name |-> "Freeform Structure", isDefault |-> TRUE,
   sections |-> JSON_stringify(<<
       [key |-> "section_1", title |-> "Section 1", order |-> 1],
       [key |-> "section_1", title |-> "Section 2", order |-> 1],
       [key |-> "section_3", title |-> "Section 3", order |-> 3] >>)]

tpl_freeform ==
  [templateType |-> "freeform", name |-> "Freeform Structure", isDefault |-> TRUE,
   sections |-> JSON_stringify(<<
       [key |-> "section_1", title |-> "Section 1", order |-> 1],
       [key |-> "section_2", title |-> "Section 2", order |-> 2],
       [key |-> "section_3", title |-> "Section 3", order |-> 3] >>)]

plotTemplates ==
  << tpl_freytag,
     tpl_hero_journey,
     tpl_three_act,
     tpl_story_circle,
     tpl_fichtean_curve,
     tpl_save_the_cat,
     tpl_seven_point,
     tpl_freeform >>

----------------------------------------------------------------------------
(* Tables and rows *)

null == -1   \* JS null / SQL NULL in an integer column

NoRow == [id |-> null]

NotANumber == -2   \* a JSON value that is not a number, sent for an integer column

\* the integer columns of plot_structures and plot_structure_sections
IntegerColumns == {"id", "projectId", "templateId", "plotStructureId", "order"}

\* PostgreSQL takes the parameters of the statement: an integer column is
\* given an integer, else the statement fails (invalid input syntax)
pgAccepts(values) ==
  \A f \in DOMAIN values \cap IntegerColumns : values[f] # NotANumber

Put(tbl, k, row) == [x \in DOMAIN tbl \cup {k} |-> IF x = k THEN row ELSE tbl[x]]

Remove(tbl, k) == [x \in DOMAIN tbl \ {k} |-> tbl[x]]

Has(body, f) == f \in DOMAIN body

\* the update replaces the row: fields it does not name fall back to empty
Spread_replace(row, update, t) ==
  [f \in DOMAIN row |->
     IF f = "updatedAt" THEN t
     ELSE IF f \in DOMAIN update THEN update[f]
     ELSE IF f \in {"title", "content"} THEN "" ELSE row[f]]

\* { ...row, ...update, updatedAt: new Date() }
Spread(row, update, t) ==
  [f \in DOMAIN row |->
     IF f = "updatedAt" THEN t
     ELSE IF f \in DOMAIN update THEN update[f] ELSE row[f]]

RECURSIVE SetToSeq(_)
\* the keys of a table in ascending order: Map insertion order, serial ids
SetToSeq(S) ==
  IF S = {} THEN <<>>
  ELSE LET m == CHOOSE x \in S : \A y \in S : x <= y
       IN <<m>> \o SetToSeq(S \ {m})

RECURSIVE InsertByOrder(_, _)
\* r goes after every element whose order is not greater (a stable sort)
InsertByOrder(sorted, r) ==
  IF sorted = <<>> THEN <<r>>
  ELSE IF Head(sorted).order <= r.order
       THEN <<Head(sorted)>> \o InsertByOrder(Tail(sorted), r)
       ELSE <<r>> \o sorted

RECURSIVE SortByOrder(_, _)
\* rows.sort((a, b) => a.order - b.order)  /  ORDER BY "order"
SortByOrder(rows, acc) ==
  IF rows = <<>> THEN acc
  ELSE SortByOrder(Tail(rows), InsertByOrder(acc, Head(rows)))

Rows(tbl, keys) == [i \in 1..Len(keys) |-> tbl[keys[i]]]

Scans(S) == {q \in [1..Cardinality(S) -> S] : \A i, j \in DOMAIN q : i # j => q[i] # q[j]}

----------------------------------------------------------------------------
(* MemStorage (server/storage.ts) *)

Mem_createPlotStructure(tbl, id, structure, t) ==
  LET row == [id |-> id,
              projectId |-> structure.projectId,
              templateId |-> structure.templateId,
              name |-> structure.name,
              order |-> IF Has(structure, "order") /\ structure.order # 0
                        THEN structure.order ELSE null,
              createdAt |-> t, updatedAt |-> t]
  IN [tbl |-> Put(tbl, id, row), row |-> row]

Mem_updatePlotStructure(tbl, id, structureUpdate, t) ==
  IF id \notin DOMAIN tbl THEN [tbl |-> tbl, found |-> FALSE, row |-> NoRow]
  ELSE LET row == Spread(tbl[id], structureUpdate, t)
       IN [tbl |-> Put(tbl, id, row), found |-> TRUE, row |-> row]

Mem_deletePlotStructure(tbl, id) ==
  [tbl |-> Remove(tbl, id), result |-> id \in DOMAIN tbl]

Mem_getProjectPlotStructures(tbl, projectId) ==
  LET keys == SetToSeq({k \in DOMAIN tbl : tbl[k].projectId = projectId})
  IN {Rows(tbl, keys)}

Mem_getPlotStructureSections(tbl, plotStructureId) ==
  LET keys == SetToSeq({k \in DOMAIN tbl : tbl[k].plotStructureId = plotStructureId})
  IN {SortByOrder(Rows(tbl, keys), <<>>)}

Mem_createPlotStructureSection(tbl, id, section, t) ==
  LET row == [id |-> id,
              plotStructureId |-> section.plotStructureId,
              sectionKey |-> section.sectionKey,
              title |-> section.title,
              content |-> IF Has(section, "content") THEN section.content ELSE "",
              order |-> section.order,
              createdAt |-> t, updatedAt |-> t]
  IN [tbl |-> Put(tbl, id, row), row |-> row]

\* an update keyed on the owning Instance: every Section of it is written
Mem_updatePlotStructureSection_wholeInstance(tbl, id, sectionUpdate, t) ==
  IF id \notin DOMAIN tbl THEN [tbl |-> tbl, found |-> FALSE, row |-> NoRow]
  ELSE LET out == [k \in DOMAIN tbl |->
                     IF tbl[k].plotStructureId = tbl[id].plotStructureId
                     THEN Spread(tbl[k], sectionUpdate, t) ELSE tbl[k]]
       IN [tbl |-> out, found |-> TRUE, row |-> out[id]]

Mem_updatePlotStructureSection(tbl, id, sectionUpdate, t) ==
  IF id \notin DOMAIN tbl THEN [tbl |-> tbl, found |-> FALSE, row |-> NoRow]
  ELSE LET row == Spread(tbl[id], sectionUpdate, t)
       IN [tbl |-> Put(tbl, id, row), found |-> TRUE, row |-> row]

Mem_deletePlotStructureSection(tbl, id) ==
  [tbl |-> Remove(tbl, id), result |-> id \in DOMAIN tbl]

----------------------------------------------------------------------------
(* DatabaseStorage (server/storage.ts) over the tables of shared/schema.ts *)

Db_createPlotStructure(tbl, id, structure, t) ==
  LET row == [id |-> id,
              projectId |-> structure.projectId,
              templateId |-> structure.templateId,
              name |-> structure.name,
              order |-> IF Has(structure, "order") THEN structure.order ELSE 0,
              createdAt |-> t, updatedAt |-> t]
  IN [tbl |-> Put(tbl, id, row), row |-> row]

Db_updatePlotStructure(tbl, id, structureUpdate, t) ==
  IF id \notin DOMAIN tbl THEN [tbl |-> tbl, found |-> FALSE, row |-> NoRow]
  ELSE LET row == Spread(tbl[id], structureUpdate, t)
       IN [tbl |-> Put(tbl, id, row), found |-> TRUE, row |-> row]

\* DELETE FROM plot_structures WHERE id = $1; the driver's result object is truthy
Db_deletePlotStructure(tbl, id) ==
  [tbl |-> Remove(tbl, id), result |-> TRUE]

Db_getProjectPlotStructures(tbl, projectId) ==
  LET S == {k \in DOMAIN tbl : tbl[k].projectId = projectId}
  IN {Rows(tbl, keys) : keys \in Scans(S)}

RECURSIVE Db_orderBy(_, _)
\* ORDER BY "order": the rows of S by ascending order, equal orders in any sequence
Db_orderBy(tbl, S) ==
  IF S = {} THEN {<<>>}
  ELSE LET least == {k \in S : \A j \in S : tbl[k].order <= tbl[j].order}
       IN UNION {{<<tbl[k]>> \o rest : rest \in Db_orderBy(tbl, S \ {k})} : k \in least}

\* the query without its ORDER BY: the rows in any scan order
Db_getPlotStructureSections_unordered(tbl, plotStructureId) ==
  LET S == {k \in DOMAIN tbl : tbl[k].plotStructureId = plotStructureId}
  IN {Rows(tbl, keys) : keys \in Scans(S)}

Db_getPlotStructureSections(tbl, plotStructureId) ==
  Db_orderBy(tbl, {k \in DOMAIN tbl : tbl[k].plotStructureId = plotStructureId})

\* the insert without the entry's order: the column falls to 0
Db_createPlotStructureSection_noOrder(tbl, id, section, t) ==
  LET row == [id |-> id,
              plotStructureId |-> section.plotStructureId,
              sectionKey |-> section.sectionKey,
              title |-> section.title,
              content |-> IF Has(section, "content") THEN section.content ELSE "",
              order |-> 0,
              createdAt |-> t, updatedAt |-> t]
  IN [tbl |-> Put(tbl, id, row), row |-> row]

Db_createPlotStructureSection(tbl, id, section, t) ==
  LET row == [id |-> id,
              plotStructureId |-> section.plotStructureId,
              sectionKey |-> section.sectionKey,
              title |-> section.title,
              content |-> IF Has(section, "content") THEN section.content ELSE "",
              order |-> section.order,
              createdAt |-> t, updatedAt |-> t]
  IN [tbl |-> Put(tbl, id, row), row |-> row]

\* an update with a version check: a row already updated once is not written
Db_updatePlotStructureSection_firstWins(tbl, id, sectionUpdate, t) ==
  IF id \notin DOMAIN tbl \/ tbl[id].updatedAt > tbl[id].createdAt
  THEN [tbl |-> tbl, found |-> FALSE, row |-> NoRow]
  ELSE LET row == Spread(tbl[id], sectionUpdate, t)
       IN [tbl |-> Put(tbl, id, row), found |-> TRUE, row |-> row]

\* an update that inserts the row when its WHERE matches nothing
Db_updatePlotStructureSection_upsert(tbl, id, sectionUpdate, t) ==
  LET blank == [id |-> id, plotStructureId |-> 1, sectionKey |-> "section_1",
                title |-> "", content |-> "", order |-> 0,
                createdAt |-> t, updatedAt |-> t]
      row == Spread(IF id \in DOMAIN tbl THEN tbl[id] ELSE blank, sectionUpdate, t)
  IN [tbl |-> Put(tbl, id, row), found |-> TRUE, row |-> row]

Db_updatePlotStructureSection(tbl, id, sectionUpdate, t) ==
  IF id \notin DOMAIN tbl THEN [tbl |-> tbl, found |-> FALSE, row |-> NoRow]
  ELSE LET row == Spread(tbl[id], sectionUpdate, t)
       IN [tbl |-> Put(tbl, id, row), found |-> TRUE, row |-> row]

\* a delete whose WHERE matches nothing
Db_deletePlotStructureSection_keep(tbl, id) ==
  [tbl |-> tbl, result |-> TRUE]

Db_deletePlotStructureSection(tbl, id) ==
  [tbl |-> Remove(tbl, id), result |-> TRUE]

----------------------------------------------------------------------------
(* `storage`: the IStorage the routes call *)

createPlotStructure(structure) ==
  IF impl = "mem" THEN Mem_createPlotStructure(structures, structureSeq, structure, now)
  ELSE Db_createPlotStructure(structures, structureSeq, structure, now)

updatePlotStructure(id, structureUpdate) ==
  IF impl = "mem" THEN Mem_updatePlotStructure(structures, id, structureUpdate, now)
  ELSE Db_updatePlotStructure(structures, id, structureUpdate, now)

deletePlotStructure(id) ==
  IF impl = "mem" THEN Mem_deletePlotStructure(structures, id)
  ELSE Db_deletePlotStructure(structures, id)

getProjectPlotStructures(projectId) ==
  IF impl = "mem" THEN Mem_getProjectPlotStructures(structures, projectId)
  ELSE Db_getProjectPlotStructures(structures, projectId)

getPlotStructureSections(plotStructureId) ==
  IF impl = "mem" THEN Mem_getPlotStructureSections(sections, plotStructureId)
  ELSE Db_getPlotStructureSections(sections, plotStructureId)

createPlotStructureSection(section) ==
  IF impl = "mem" THEN Mem_createPlotStructureSection(sections, sectionSeq, section, now)
  ELSE Db_createPlotStructureSection(sections, sectionSeq, section, now)

updatePlotStructureSection(id, sectionUpdate) ==
  IF impl = "mem" THEN Mem_updatePlotStructureSection(sections, id, sectionUpdate, now)
  ELSE Db_updatePlotStructureSection(sections, id, sectionUpdate, now)

deletePlotStructureSection(id) ==
  IF impl = "mem" THEN Mem_deletePlotStructureSection(sections, id)
  ELSE Db_deletePlotStructureSection(sections, id)

----------------------------------------------------------------------------
(* Request validation (shared/schema.ts, zod insert schemas) *)

insertPlotStructureSchema_ok(body) ==
  {"projectId", "templateId", "name"} \subseteq DOMAIN body

insertPlotStructureSectionSchema_ok(body) ==
  {"plotStructureId", "sectionKey", "title", "order"} \subseteq DOMAIN body

----------------------------------------------------------------------------
(* server/routes.ts: plot-structure routes.  `up` is FALSE when the storage *)
(* call throws (the catch block answers 500).  A request that stamps a row  *)
(* reads the clock, and the next one reads a later value.                   *)

\* the body is kept as the id of the row it carries (null: no row)
Response(route, status, row) ==
  [route |-> route, status |-> status, body |-> [id |-> row.id]]

store == <<structures, sections, structureSeq, sectionSeq, now>>

GET_project_plot_structures(projectId, up) ==
  /\ \E structuresOut \in getProjectPlotStructures(projectId) :
       resp' = Response("GET /api/projects/:projectId/plot-structures",
                        IF up THEN 200 ELSE 500, NoRow)
  /\ UNCHANGED store

POST_plot_structures(body, up) ==
  IF ~insertPlotStructureSchema_ok(body)
  THEN /\ resp' = Response("POST /api/plot-structures", 400, NoRow)
       /\ UNCHANGED store
  ELSE IF ~up
  THEN /\ resp' = Response("POST /api/plot-structures", 500, NoRow)
       /\ UNCHANGED store
  ELSE LET r == createPlotStructure(body)
       IN /\ structures' = r.tbl
          /\ structureSeq' = structureSeq + 1
          /\ now' = now + 1
          /\ resp' = Response("POST /api/plot-structures", 201, r.row)
          /\ UNCHANGED <<sections, sectionSeq>>

PUT_plot_structures(id, body, up) ==
  IF ~up \/ (impl = "db" /\ ~pgAccepts(body))
  THEN /\ resp' = Response("PUT /api/plot-structures/:id", 500, NoRow)
       /\ UNCHANGED store
  ELSE LET r == updatePlotStructure(id, body)
       IN /\ structures' = r.tbl
          /\ now' = now + 1
          /\ resp' = Response("PUT /api/plot-structures/:id",
                              IF r.found THEN 200 ELSE 404, r.row)
          /\ UNCHANGED <<sections, structureSeq, sectionSeq>>

DELETE_plot_structures(id, up) ==
  IF ~up
  THEN /\ resp' = Response("DELETE /api/plot-structures/:id", 500, NoRow)
       /\ UNCHANGED store
  ELSE LET r == deletePlotStructure(id)
       IN /\ structures' = r.tbl
          /\ resp' = Response("DELETE /api/plot-structures/:id",
                              IF r.result THEN 204 ELSE 404, NoRow)
          /\ UNCHANGED <<sections, structureSeq, sectionSeq, now>>

GET_plot_structure_sections(structureId, up) ==
  /\ \E sectionsOut \in getPlotStructureSections(structureId) :
       resp' = Response("GET /api/plot-structures/:structureId/sections",
                        IF up THEN 200 ELSE 500, NoRow)
  /\ UNCHANGED store

POST_plot_structure_sections(body, up) ==
  IF ~insertPlotStructureSectionSchema_ok(body)
  THEN /\ resp' = Response("POST /api/plot-structure-sections", 400, NoRow)
       /\ UNCHANGED store
  ELSE IF ~up
  THEN /\ resp' = Response("POST /api/plot-structure-sections", 500, NoRow)
       /\ UNCHANGED store
  ELSE LET r == createPlotStructureSection(body)
       IN /\ sections' = r.tbl
          /\ sectionSeq' = sectionSeq + 1
          /\ now' = now + 1
          /\ resp' = Response("POST /api/plot-structure-sections", 201, r.row)
          /\ UNCHANGED <<structures, structureSeq>>

PUT_plot_structure_sections(id, body, up) ==
  IF ~up \/ (impl = "db" /\ ~pgAccepts(body))
  THEN /\ resp' = Response("PUT /api/plot-structure-sections/:id", 500, NoRow)
       /\ UNCHANGED store
  ELSE LET r == updatePlotStructureSection(id, body)
       IN /\ sections' = r.tbl
          /\ now' = now + 1
          /\ resp' = Response("PUT /api/plot-structure-sections/:id",
                              IF r.found THEN 200 ELSE 404, r.row)
          /\ UNCHANGED <<structures, structureSeq, sectionSeq>>

DELETE_plot_structure_sections(id, up) ==
  IF ~up
  THEN /\ resp' = Response("DELETE /api/plot-structure-sections/:id", 500, NoRow)
       /\ UNCHANGED store
  ELSE LET r == deletePlotStructureSection(id)
       IN /\ sections' = r.tbl
          /\ resp' = Response("DELETE /api/plot-structure-sections/:id",
                              IF r.result THEN 204 ELSE 404, NoRow)
          /\ UNCHANGED <<structures, structureSeq, sectionSeq, now>>

----------------------------------------------------------------------------
(* The seeded catalog: serial ids 1..8 in array order *)

SeededCatalog ==
  [i \in 1..Len(plotTemplates) |->
     [id |-> i,
      templateType |-> plotTemplates[i].templateType,
      name |-> plotTemplates[i].name,
      sections |-> plotTemplates[i].sections,
      isDefault |-> plotTemplates[i].isDefault]]

CatalogIds == {templates[i].id : i \in DOMAIN templates}

TemplateById(id) == templates[CHOOSE i \in DOMAIN templates : templates[i].id = id]

----------------------------------------------------------------------------
(* Template reads (server/storage.ts) and the two template routes, the only *)
(* routes over plot_structure_templates                                     *)

Mem_getPlotStructureTemplate(tbl, id) ==
  IF \E i \in DOMAIN tbl : tbl[i].id = id
  THEN [found |-> TRUE, row |-> tbl[CHOOSE i \in DOMAIN tbl : tbl[i].id = id]]
  ELSE [found |-> FALSE, row |-> NoRow]

Mem_getAllPlotStructureTemplates(tbl) == tbl

\* what a storage method can reach: every Map of MemStorage, every table of db
Storage == [templates |-> templates, structures |-> structures, sections |-> sections]

\* the Map entry / the rows with this id are replaced by row
SetTemplate(tbl, id, row) ==
  [i \in DOMAIN tbl |-> IF tbl[i].id = id THEN row ELSE tbl[i]]

\* (the columns description, createdAt and updatedAt are not kept in the rows)
Mem_updatePlotStructureTemplate(st, id, templateUpdate, t) ==
  LET template == Mem_getPlotStructureTemplate(st.templates, id)
  IN IF ~template.found THEN [st |-> st, found |-> FALSE, row |-> NoRow]
     ELSE LET updatedTemplate == Spread(template.row, templateUpdate, t)
          IN [st |-> [st EXCEPT !.templates = SetTemplate(st.templates, id, updatedTemplate)],
              found |-> TRUE, row |-> updatedTemplate]

Db_getPlotStructureTemplate(tbl, id) ==
  LET matching == {i \in DOMAIN tbl : tbl[i].id = id}
  IN IF matching = {} THEN [found |-> FALSE, row |-> NoRow]
     ELSE [found |-> TRUE, row |-> tbl[CHOOSE i \in matching : \A j \in matching : i <= j]]

Db_getAllPlotStructureTemplates(tbl) == tbl

\* an update that brings the Instances of the template in line with it: their
\* Sections are dropped, to be materialized again from the new list
Db_updatePlotStructureTemplate_resync(st, id, templateUpdate, t) ==
  LET instances == {k \in DOMAIN st.structures : st.structures[k].templateId = id}
      kept == {k \in DOMAIN st.sections : st.sections[k].plotStructureId \notin instances}
  IN [st |-> [st EXCEPT !.sections = [k \in kept |-> st.sections[k]]],
      found |-> TRUE, row |-> NoRow]

\* UPDATE plot_structure_templates SET ... WHERE id = $1 RETURNING *
Db_updatePlotStructureTemplate(st, id, templateUpdate, t) ==
  LET matching == {i \in DOMAIN st.templates : st.templates[i].id = id}
  IN IF matching = {} THEN [st |-> st, found |-> FALSE, row |-> NoRow]
     ELSE LET first == CHOOSE i \in matching : \A j \in matching : i <= j
              updatedTemplate == Spread(st.templates[first], templateUpdate, t)
          IN [st |-> [st EXCEPT !.templates =
                        [i \in DOMAIN st.templates |->
                           IF i \in matching THEN Spread(st.templates[i], templateUpdate, t)
                           ELSE st.templates[i]]],
              found |-> TRUE, row |-> updatedTemplate]

updatePlotStructureTemplate(id, templateUpdate) ==
  IF impl = "mem" THEN Mem_updatePlotStructureTemplate(Storage, id, templateUpdate, now)
  ELSE Db_updatePlotStructureTemplate(Storage, id, templateUpdate, now)

getPlotStructureTemplate(id) ==
  IF impl = "mem" THEN Mem_getPlotStructureTemplate(templates, id)
  ELSE Db_getPlotStructureTemplate(templates, id)

getAllPlotStructureTemplates ==
  IF impl = "mem" THEN Mem_getAllPlotStructureTemplates(templates)
  ELSE Db_getAllPlotStructureTemplates(templates)

GET_plot_templates(up) ==
  /\ \E templatesOut \in {getAllPlotStructureTemplates} :
       resp' = Response("GET /api/plot-templates", IF up THEN 200 ELSE 500, NoRow)
  /\ UNCHANGED <<templates, store>>

\* a route that takes the row it serves out of the catalog
GET_plot_templates_id_take(id, up) ==
  /\ resp' = Response("GET /api/plot-templates/:id", 200, NoRow)
  /\ templates' = SelectSeq(templates, LAMBDA t : t.id # id)
  /\ UNCHANGED store

GET_plot_templates_id(id, up) ==
  /\ IF ~up THEN resp' = Response("GET /api/plot-templates/:id", 500, NoRow)
     ELSE LET r == getPlotStructureTemplate(id)
          IN resp' = Response("GET /api/plot-templates/:id",
                              IF r.found THEN 200 ELSE 404, r.row)
  /\ UNCHANGED <<templates, store>>

----------------------------------------------------------------------------
(* Client: createFromTemplate of usePlotStructureActions, called by        *)
(* PlotStructureManager.handleCreateFromTemplate.  The hook follows the    *)
(* materialization contract: look up, parse, create the Instance, create   *)
(* one Section per entry in ascending order, roll back on a failed create. *)

IdleClient ==
  [pc |-> "idle", outcome |-> "none", projectId |-> null, templateId |-> null,
   entries |-> <<>>, structureId |-> null, idx |-> 0, created |-> <<>>,
   plotStructureId |-> null]

WellFormedEntries(entries) ==
  \A i \in DOMAIN entries : {"key", "title", "order"} \subseteq DOMAIN entries[i]

Max(S) == CHOOSE x \in S : \A y \in S : y <= x

\* next available order among the project's instances
NextOrder(projectId) ==
  1 + Max({0} \cup {structures[k].order : k \in {j \in DOMAIN structures :
                                                 structures[j].projectId = projectId}})

\* handleCreateFromTemplate after createFromTemplate resolved (ok) or threw
handleCreateFromTemplate(c, ok) ==
  IF ok THEN [c EXCEPT !.pc = "idle", !.outcome = "created",
                       !.plotStructureId = c.structureId]
  ELSE [c EXCEPT !.pc = "idle", !.outcome = "error"]

SectionBody(c, entry) ==
  [plotStructureId |-> c.structureId, sectionKey |-> entry.key,
   title |-> entry.title, content |-> "", order |-> entry.order]

\* steps 1-3: template lookup, parse, POST /api/plot-structures
createFromTemplate_begin(projectId, templateId, up) ==
  /\ client.pc = "idle"
  /\ hist.attempts < MaxAttempts
  /\ LET started == [IdleClient EXCEPT !.projectId = projectId,
                                       !.templateId = templateId,
                                       !.plotStructureId = client.plotStructureId]
     IN
     IF templateId \notin CatalogIds
     THEN /\ client' = handleCreateFromTemplate(started, FALSE)
          /\ UNCHANGED <<store, resp>>
     ELSE LET t == TemplateById(templateId)
              parse == JSON_parse(t.sections)
              parsed == parse.value
          IN IF ~parse.ok \/ ~WellFormedEntries(parsed)
             THEN /\ client' = handleCreateFromTemplate(started, FALSE)
                  /\ UNCHANGED <<store, resp>>
             ELSE /\ POST_plot_structures(
                       [projectId |-> projectId, templateId |-> templateId,
                        name |-> t.name, order |-> NextOrder(projectId)], up)
                  /\ LET c == [started EXCEPT !.entries = SortByOrder(parsed, <<>>),
                                              !.structureId = resp'.body.id,
                                              !.idx = 1]
                     IN client' =
                          IF resp'.status # 201 THEN handleCreateFromTemplate(c, FALSE)
                          ELSE IF c.entries = <<>> THEN handleCreateFromTemplate(c, TRUE)
                          ELSE [c EXCEPT !.pc = "sections"]
  /\ hist' = [hist EXCEPT !.attempts = @ + 1]
  /\ UNCHANGED <<impl, calls, queryClient, req, editor, templates, seed>>

\* step 4: POST /api/plot-structure-sections for the next entry
createFromTemplate_section(up) ==
  /\ client.pc = "sections"
  /\ POST_plot_structure_sections(SectionBody(client, client.entries[client.idx]), up)
  /\ client' =
       IF resp'.status # 201 THEN [client EXCEPT !.pc = "rollback"]
       ELSE LET c == [client EXCEPT !.created = Append(@, resp'.body.id),
                                    !.idx = @ + 1]
            IN IF c.idx > Len(c.entries) THEN handleCreateFromTemplate(c, TRUE)
               ELSE c
  /\ UNCHANGED <<impl, calls, queryClient, req, editor, templates, seed, hist>>

RECURSIVE DeleteAll(_, _)
DeleteAll(tbl, ids) ==
  IF ids = <<>> THEN tbl
  ELSE DeleteAll(IF impl = "mem" THEN Mem_deletePlotStructureSection(tbl, Head(ids)).tbl
                 ELSE Db_deletePlotStructureSection(tbl, Head(ids)).tbl, Tail(ids))

\* step 4, on failure: delete the created Sections and the Instance, then throw
createFromTemplate_rollback ==
  /\ client.pc = "rollback"
  /\ sections' = DeleteAll(sections, client.created)
  /\ structures' = deletePlotStructure(client.structureId).tbl
  /\ resp' = Response("DELETE /api/plot-structures/:id", 204, NoRow)
  /\ client' = handleCreateFromTemplate(client, FALSE)
  /\ UNCHANGED <<impl, calls, queryClient, req, editor, now, templates, seed, structureSeq, sectionSeq, hist>>

----------------------------------------------------------------------------
(* client/src/components/plot-structure/plot-structure-view.tsx:           *)
(* PlotStructureView, the editor of the Sections of one Instance.  The      *)
(* hooks it imports (usePlotStructureSections, usePlotStructureActions)     *)
(* send GET /api/plot-structures/:id/sections and                          *)
(* PUT /api/plot-structure-sections/:id.                                    *)

\* no call of debouncedSave is waiting for its timer
NoCall == [armed |-> FALSE, sectionKey |-> "", content |-> "", sectionId |-> null]

\* before the sections query has resolved; activeSection null is ""
ClosedEditor ==
  [structureId |-> null, sections |-> <<>>, activeSection |-> "",
   editedContent |-> <<>>, saveStatus |-> <<>>, isSaving |-> FALSE,
   debounced |-> NoCall, timeouts |-> <<>>, inflight |-> {}]

\* const sortedSections = [...sections].sort((a, b) => a.order - b.order)
sortedSections(e) == SortByOrder(e.sections, <<>>)

\* sortedSections.find(s => s.sectionKey === activeSection)
activeSectionData(e) ==
  LET sorted == sortedSections(e)
      hits == {i \in DOMAIN sorted : sorted[i].sectionKey = e.activeSection}
  IN IF e.activeSection = "" \/ hits = {} THEN NoRow
     ELSE sorted[CHOOSE i \in hits : \A j \in hits : i <= j]

\* the sections query resolved: the two effects that depend on `sections`
PlotStructureView_load(e, structureId, sectionsOut) ==
  LET keys == {sectionsOut[i].sectionKey : i \in DOMAIN sectionsOut}
      last(k) == CHOOSE i \in DOMAIN sectionsOut :
                   /\ sectionsOut[i].sectionKey = k
                   /\ \A j \in DOMAIN sectionsOut : sectionsOut[j].sectionKey = k => j <= i
      sorted == SortByOrder(sectionsOut, <<>>)
  IN [e EXCEPT !.structureId = structureId,
               !.sections = sectionsOut,
               !.activeSection = IF sorted # <<>> /\ e.activeSection = ""
                                 THEN sorted[1].sectionKey ELSE e.activeSection,
               !.editedContent = [k \in keys |-> sectionsOut[last(k)].content],
               !.saveStatus = [k \in keys |-> "saved"],
               !.timeouts = [k \in keys |-> 0]]

\* a wrapper that keeps the arguments of the first call while its timer runs
debouncedSave_keepFirst(e, sectionKey, content, sectionId) ==
  IF e.debounced.armed THEN e.debounced
  ELSE [armed |-> TRUE, sectionKey |-> sectionKey, content |-> content,
        sectionId |-> sectionId]

\* debouncedSave(sectionKey, content, sectionId): lodash debounce, one timer,
\* the last call's arguments replace those of the call that was waiting
debouncedSave(e, sectionKey, content, sectionId) ==
  [armed |-> TRUE, sectionKey |-> sectionKey, content |-> content,
   sectionId |-> sectionId]

handleContentChange(e, sectionKey, content, sectionId) ==
  [e EXCEPT !.editedContent = Put(@, sectionKey, content),
            !.saveStatus = Put(@, sectionKey, "typing"),
            !.timeouts = Put(@, sectionKey, e.timeouts[sectionKey] + 1),
            !.debounced = debouncedSave(e, sectionKey, content, sectionId)]

\* the setTimeout(..., 500) callback of handleContentChange
handleContentChange_timeout(e, sectionKey) ==
  [e EXCEPT !.timeouts = Put(@, sectionKey, e.timeouts[sectionKey] - 1),
            !.saveStatus = IF @[sectionKey] = "typing"
                           THEN Put(@, sectionKey, "saving") ELSE @]

\* updateSection({ id, data: { content } }, ...): the request leaves.  Two
\* calls with the same arguments are two requests: each is told apart by the
\* number of inputs the editor had taken when it left.
UpdateRequest(sectionKey, content, sectionId, manual) ==
  [id |-> sectionId, sectionKey |-> sectionKey, content |-> content, manual |-> manual,
   issued |-> hist.edits]

\* the debounce timer (3000 ms) expired: the waiting call runs
debouncedSave_run(e) ==
  [e EXCEPT !.debounced = NoCall,
            !.inflight = @ \cup {UpdateRequest(e.debounced.sectionKey, e.debounced.content,
                                               e.debounced.sectionId, FALSE)}]

\* the Save button, enabled while !isSaving
saveSection(e, section) ==
  [e EXCEPT !.isSaving = TRUE,
            !.saveStatus = Put(@, section.sectionKey, "saving"),
            !.inflight = @ \cup {UpdateRequest(section.sectionKey,
                                               e.editedContent[section.sectionKey],
                                               section.id, TRUE)}]

\* onSuccess / onError of the request q
updateSection_settled(e, q, ok) ==
  [e EXCEPT !.inflight = @ \ {q},
            !.saveStatus = Put(@, q.sectionKey, IF ok THEN "saved" ELSE "typing"),
            !.isSaving = IF q.manual THEN FALSE ELSE @]

\* what the user types into the Textarea
Drafts == {"Once", "Once upon a time"}

----------------------------------------------------------------------------
(* Requests any authenticated user (another tab, a script) can send.       *)
(* Storage failures are injected into the create requests, the ones the    *)
(* materialization contract speaks about.                                  *)

StructureIds == 1..MaxStructures
SectionIds == 1..MaxSections

\* ids of Instances named in section requests, existing or not
OwnerIds == {1, 2}

PostStructureBodies ==
  {[projectId |-> p, templateId |-> 8, name |-> "Draft"] : p \in Projects}
  \cup {[projectId |-> p, templateId |-> 8, name |-> "Draft", order |-> 1] : p \in Projects}
  \cup {[projectId |-> 42, templateId |-> 8]}
  \cup {[projectId |-> 42, templateId |-> Len(plotTemplates) + 1, name |-> "Draft"]}

PutStructureBodies ==
  {[name |-> "Renamed"], [order |-> 2], [name |-> "Renamed", order |-> 2],
   [templateId |-> 1], [projectId |-> 7]}

PostSectionBodies ==
  {[plotStructureId |-> s, sectionKey |-> "section_1", title |-> "Section 1", order |-> o] :
     s \in OwnerIds, o \in {1, 2}}
  \cup {[plotStructureId |-> 1, sectionKey |-> "section_1", order |-> 1]}

\* the editor sends any of { title, content, order }; the route takes any body
EditBodies ==
  {[f \in F |-> CASE f = "title" -> "Edited"
                  [] f = "content" -> "Opening scene."
                  [] f = "order" -> 1] : F \in SUBSET {"title", "content", "order"}}

PutSectionBodies ==
  EditBodies \cup {[plotStructureId |-> 2], [sectionKey |-> "section_2"]}

\* { "order": "first" }
MalformedSectionBodies == {[order |-> NotANumber]}

ListInstances ==
  /\ \E projectId \in Projects : GET_project_plot_structures(projectId, TRUE)
  /\ UNCHANGED <<impl, calls, queryClient, req, editor, templates, seed, client, hist>>

CreateInstance ==
  /\ structureSeq <= MaxStructures
  /\ \E body \in PostStructureBodies, up \in BOOLEAN : POST_plot_structures(body, up)
  /\ UNCHANGED <<impl, calls, queryClient, req, editor, templates, seed, client, hist>>

UpdateInstance ==
  /\ hist.updates < MaxUpdates
  /\ \E id \in StructureIds, body \in PutStructureBodies :
       PUT_plot_structures(id, body, TRUE)
  /\ hist' = [hist EXCEPT !.updates = @ + 1]
  /\ UNCHANGED <<impl, calls, queryClient, req, editor, templates, seed, client>>

DeleteInstance ==
  /\ \E id \in StructureIds : DELETE_plot_structures(id, TRUE)
  /\ UNCHANGED <<impl, calls, queryClient, req, editor, templates, seed, client, hist>>

ListSections ==
  /\ \E structureId \in OwnerIds : GET_plot_structure_sections(structureId, TRUE)
  /\ UNCHANGED <<impl, calls, queryClient, req, editor, templates, seed, client, hist>>

CreateSection ==
  /\ sectionSeq <= MaxSections
  /\ \E body \in PostSectionBodies, up \in BOOLEAN : POST_plot_structure_sections(body, up)
  /\ UNCHANGED <<impl, calls, queryClient, req, editor, templates, seed, client, hist>>

UpdateSection ==
  /\ hist.updates < MaxUpdates
  /\ \E id \in SectionIds, body \in PutSectionBodies \cup MalformedSectionBodies :
       PUT_plot_structure_sections(id, body, TRUE)
  /\ hist' = [hist EXCEPT !.updates = @ + 1]
  /\ UNCHANGED <<impl, calls, queryClient, req, editor, templates, seed, client>>

DeleteSection ==
  /\ \E id \in SectionIds : DELETE_plot_structure_sections(id, TRUE)
  /\ UNCHANGED <<impl, calls, queryClient, req, editor, templates, seed, client, hist>>

ListTemplates ==
  /\ \E up \in BOOLEAN : GET_plot_templates(up)
  /\ UNCHANGED <<impl, calls, queryClient, req, editor, seed, client, hist>>

GetTemplate ==
  /\ \E id \in 1..(Len(plotTemplates) + 1), up \in BOOLEAN : GET_plot_templates_id(id, up)
  /\ UNCHANGED <<impl, calls, queryClient, req, editor, seed, client, hist>>

\* the section list of Freeform with a section added, with its last two
\* removed, and with a title changed
EditedSectionLists ==
  LET list == JSON_parse(tpl_freeform.sections).value
  IN { Append(list, [key |-> "section_4", title |-> "Section 4", order |-> Len(list) + 1]),
       SubSeq(list, 1, 1),
       [list EXCEPT ![2].title = "Middle"] }

TemplateUpdates ==
  {[sections |-> JSON_stringify(l)] : l \in EditedSectionLists}
    \cup {[name |-> "Freeform"]}

\* storage.updatePlotStructureTemplate called on the Freeform row or on no row
UpdateTemplate ==
  /\ hist.updates < MaxUpdates
  /\ \E id \in {Len(plotTemplates), Len(plotTemplates) + 1}, templateUpdate \in TemplateUpdates :
       LET r == updatePlotStructureTemplate(id, templateUpdate)
       IN /\ templates' = r.st.templates
          /\ structures' = r.st.structures
          /\ sections' = r.st.sections
          /\ now' = now + 1
  /\ hist' = [hist EXCEPT !.updates = @ + 1]
  /\ UNCHANGED <<impl, calls, queryClient, req, editor, structureSeq, sectionSeq, seed, client, resp>>

ApplyTemplate ==
  \E projectId \in Projects, templateId \in 1..(Len(plotTemplates) + 1), up \in BOOLEAN :
    createFromTemplate_begin(projectId, templateId, up)

MaterializeSection == \E up \in BOOLEAN : createFromTemplate_section(up)

Rollback == createFromTemplate_rollback

\* the editor is opened on Instance 1 and its sections arrive
OpenEditor ==
  /\ editor.structureId = null
  /\ \E sectionsOut \in getPlotStructureSections(1) :
       /\ editor' = PlotStructureView_load(editor, 1, sectionsOut)
       /\ resp' = Response("GET /api/plot-structures/:structureId/sections", 200, NoRow)
  /\ UNCHANGED <<impl, calls, queryClient, req, templates, seed, client, hist, store>>

\* onChange of the Textarea of the active section
TypeContent ==
  /\ hist.edits < MaxEdits
  /\ activeSectionData(editor) # NoRow
  /\ LET section == activeSectionData(editor)
     IN \E content \in Drafts \ {editor.editedContent[section.sectionKey]} :
          editor' = handleContentChange(editor, section.sectionKey, content, section.id)
  /\ hist' = [hist EXCEPT !.edits = @ + 1]
  /\ UNCHANGED <<impl, calls, queryClient, req, templates, seed, client, resp, store>>

SavingTimeout ==
  /\ \E sectionKey \in DOMAIN editor.timeouts :
       /\ editor.timeouts[sectionKey] > 0
       /\ editor' = handleContentChange_timeout(editor, sectionKey)
  /\ UNCHANGED <<impl, calls, queryClient, req, templates, seed, client, resp, hist, store>>

\* the 3000 ms timer expires after every 500 ms timeout set before it
DebounceFire ==
  /\ editor.debounced.armed
  /\ \A sectionKey \in DOMAIN editor.timeouts : editor.timeouts[sectionKey] = 0
  /\ editor' = debouncedSave_run(editor)
  /\ UNCHANGED <<impl, calls, queryClient, req, templates, seed, client, resp, hist, store>>

ManualSave ==
  /\ hist.edits < MaxEdits
  /\ ~editor.isSaving
  /\ activeSectionData(editor) # NoRow
  /\ editor' = saveSection(editor, activeSectionData(editor))
  /\ hist' = [hist EXCEPT !.edits = @ + 1]
  /\ UNCHANGED <<impl, calls, queryClient, req, templates, seed, client, resp, store>>

\* setActiveSection: the section list, Previous / Next, "Edit Section"
SelectSection ==
  /\ \E sectionKey \in DOMAIN editor.editedContent :
       /\ sectionKey # editor.activeSection
       /\ editor' = [editor EXCEPT !.activeSection = sectionKey]
  /\ UNCHANGED <<impl, calls, queryClient, req, templates, seed, client, resp, hist, store>>

\* the request q of the editor reaches the server and its answer the editor
updateSection_roundTrip(q, up) ==
  /\ PUT_plot_structure_sections(q.id, [content |-> q.content], up)
  /\ editor' = updateSection_settled(editor, q, resp'.status = 200)
  /\ UNCHANGED <<impl, calls, queryClient, req, templates, seed, client, hist>>

SettleUpdate ==
  \E q \in editor.inflight, up \in BOOLEAN : updateSection_roundTrip(q, up)

\* the same, the store answering every request
SettleUpdateOk ==
  \E q \in editor.inflight : updateSection_roundTrip(q, TRUE)

\* the same editor in another tab sends the content of a section
OtherTabSave ==
  /\ hist.edits < MaxEdits
  /\ \E id \in SectionIds :
       PUT_plot_structure_sections(id, [content |-> "Opening scene."], TRUE)
  /\ hist' = [hist EXCEPT !.edits = @ + 1]
  /\ UNCHANGED <<impl, calls, queryClient, req, editor, templates, seed, client>>

----------------------------------------------------------------------------
(* Calls of storage.updatePlotStructureSection that overlap.  MemStorage     *)
(* reads the Map when the method is called and writes it after its await;    *)
(* DatabaseStorage sends one UPDATE statement, which the database executes   *)
(* in one step.                                                              *)

Callers == {1, 2}

IdleCall ==
  [pc |-> "idle", id |-> null, sectionUpdate |-> NoRow, section |-> NoRow,
   found |-> FALSE]

NoCalls == [c \in Callers |-> IdleCall]

\* one caller sets only the title, the other only the content
FieldUpdates == {[title |-> "Prologue"], [content |-> "Once"]}

\* const section = await this.getPlotStructureSection(id): the Map is read now
Mem_updatePlotStructureSection_get(tbl, id) ==
  IF id \in DOMAIN tbl THEN tbl[id] ELSE NoRow

\* the rest of the method, run when the await resumes
Mem_updatePlotStructureSection_set(tbl, id, section, sectionUpdate, t) ==
  IF section = NoRow THEN [tbl |-> tbl, found |-> FALSE, row |-> NoRow]
  ELSE LET updatedSection == Spread(section, sectionUpdate, t)
       IN [tbl |-> Put(tbl, id, updatedSection), found |-> TRUE, row |-> updatedSection]

\* storage.updatePlotStructureSection(id, sectionUpdate) is called
updatePlotStructureSection_call(c, id, sectionUpdate) ==
  /\ calls[c].pc = "idle"
  /\ calls' = [calls EXCEPT ![c] =
       [pc |-> "awaiting", id |-> id, sectionUpdate |-> sectionUpdate,
        section |-> IF impl = "mem" THEN Mem_updatePlotStructureSection_get(sections, id)
                    ELSE NoRow,
        found |-> FALSE]]
  /\ UNCHANGED <<impl, queryClient, req, editor, templates, seed, client, resp, hist, store>>

\* the call's await resumes and its promise resolves
updatePlotStructureSection_resume(c) ==
  /\ calls[c].pc = "awaiting"
  /\ LET r == IF impl = "mem"
              THEN Mem_updatePlotStructureSection_set(
                     sections, calls[c].id, calls[c].section, calls[c].sectionUpdate, now)
              ELSE Db_updatePlotStructureSection(
                     sections, calls[c].id, calls[c].sectionUpdate, now)
     IN /\ sections' = r.tbl
        /\ calls' = [calls EXCEPT ![c].pc = "done", ![c].found = r.found]
  /\ now' = now + 1
  /\ UNCHANGED <<impl, queryClient, req, editor, templates, seed, client, resp, hist,
                 structures, structureSeq, sectionSeq>>

CallUpdate ==
  \E c \in Callers, id \in SectionIds, sectionUpdate \in FieldUpdates :
    updatePlotStructureSection_call(c, id, sectionUpdate)

ResumeUpdate == \E c \in Callers : updatePlotStructureSection_resume(c)

----------------------------------------------------------------------------
(* client/src/components/plot-structure/stable-plot-structure-editor.tsx    *)
(* and plot-structure-editor-wrapper.tsx: both replace                       *)
(* queryClient.invalidateQueries while they show the editor.  A function is  *)
(* written as the sequence of the components whose overrides wrap the        *)
(* original one, outermost first: <<>> is the original function.             *)

\* overrides wrapped around the original function
MaxDepth == 3

Unmounted == [shown |-> FALSE, originalInvalidate |-> <<>>,
              isManualCloseRef |-> FALSE, closing |-> FALSE]

\* nothing is mounted and nothing was invalidated
FreshQueryClient ==
  [invalidateQueries |-> <<>>,
   stable |-> Unmounted,
   wrapper |-> Unmounted,
   queryKey |-> <<>>,
   outcome |-> "none"]

\* the first element of a query key, as its path segments
QueryKeys ==
  { <<"api", "plot-structure-sections">>,
    <<"api", "plot-structures">>,
    <<"api", "projects">> }

\* String.prototype.includes, on path segments
includes(text, part) == \E i \in DOMAIN text : text[i] = part

\* the effect: const originalInvalidate = queryClient.invalidateQueries;
\* queryClient.invalidateQueries = function(...args) { ... }
overrideInvalidate(qc, component) ==
  [qc EXCEPT ![component].shown = TRUE,
             ![component].originalInvalidate = qc.invalidateQueries,
             !.invalidateQueries = <<component>> \o qc.invalidateQueries]

\* the cleanup: queryClient.invalidateQueries = originalInvalidate
restoreInvalidate(qc, component) ==
  [qc EXCEPT ![component].shown = FALSE,
             !.invalidateQueries = qc[component].originalInvalidate]

RECURSIVE invalidateQueries(_, _, _)
\* a call of the function f with queryKey[0] = key
invalidateQueries(qc, f, key) ==
  IF f = <<>> THEN "invalidated"
  ELSE LET isPlotSectionUpdate ==
             includes(key, "plot-structure-sections") /\ ~qc[Head(f)].isManualCloseRef
       IN IF isPlotSectionUpdate THEN "suppressed"
          ELSE invalidateQueries(qc, Tail(f), key)

\* handleClose / safeClose: the ref is set, the 50 ms timer started
manualClose(qc, component) ==
  [qc EXCEPT ![component].isManualCloseRef = TRUE, ![component].closing = TRUE]

\* the 50 ms timer: setPlotStructureId(null) / onClose(), the ref is reset,
\* and the render that follows runs the cleanup
manualClose_timeout(qc, component) ==
  LET closed == [qc EXCEPT ![component].isManualCloseRef = FALSE,
                           ![component].closing = FALSE]
  IN IF closed[component].shown THEN restoreInvalidate(closed, component) ELSE closed

EditorComponents == {"stable", "wrapper"}

\* state.plotStructureId becomes an id / the parent renders the wrapper
\* (not within the 50 ms that follow a click on Close)
ShowEditor ==
  /\ \E component \in EditorComponents :
       /\ ~queryClient[component].shown
       /\ ~queryClient[component].closing
       /\ Len(queryClient.invalidateQueries) < MaxDepth
       /\ queryClient' = overrideInvalidate(queryClient, component)
  /\ UNCHANGED <<impl, calls, req, editor, templates, seed, client, resp, hist, store>>

\* state.plotStructureId becomes null or another id / the parent drops the
\* wrapper; a new id runs the cleanup and then the effect again
HideEditor ==
  /\ \E component \in EditorComponents, again \in BOOLEAN :
       /\ queryClient[component].shown
       /\ again => component = "stable"
       /\ queryClient' =
            IF again THEN overrideInvalidate(restoreInvalidate(queryClient, component), component)
            ELSE restoreInvalidate(queryClient, component)
  /\ UNCHANGED <<impl, calls, req, editor, templates, seed, client, resp, hist, store>>

\* the editor's Close button
CloseEditor ==
  /\ \E component \in EditorComponents :
       /\ queryClient[component].shown
       /\ ~queryClient[component].closing
       /\ queryClient' = manualClose(queryClient, component)
  /\ UNCHANGED <<impl, calls, req, editor, templates, seed, client, resp, hist, store>>

CloseTimeout ==
  /\ \E component \in EditorComponents :
       /\ queryClient[component].closing
       /\ queryClient' = manualClose_timeout(queryClient, component)
  /\ UNCHANGED <<impl, calls, req, editor, templates, seed, client, resp, hist, store>>

\* some mutation's onSuccess calls queryClient.invalidateQueries({ queryKey })
Invalidate ==
  /\ \E key \in QueryKeys :
       queryClient' = [queryClient EXCEPT
         !.queryKey = key,
         !.outcome = invalidateQueries(queryClient, queryClient.invalidateQueries, key)]
  /\ UNCHANGED <<impl, calls, req, editor, templates, seed, client, resp, hist, store>>

----------------------------------------------------------------------------
(* server/routes.ts: the isAuthenticated middleware in front of the /api     *)
(* routes.  A string is the sequence of its characters.                      *)

\* no Authorization header / no session user
Absent == <<>>

NoRequest == [session |-> null, authorization |-> Absent, user |-> null]

\* String.prototype.startsWith
startsWith(text, prefix) ==
  Len(text) >= Len(prefix) /\ SubSeq(text, 1, Len(prefix)) = prefix

\* String.prototype.substring(start)
substring(text, start) == SubSeq(text, start + 1, Len(text))

RECURSIVE split(_, _)
\* String.prototype.split(separator), separator one character
split(text, separator) ==
  IF \A i \in DOMAIN text : text[i] # separator THEN <<text>>
  ELSE LET at == CHOOSE i \in DOMAIN text :
                   text[i] = separator /\ \A j \in 1..(i - 1) : text[j] # separator
       IN <<SubSeq(text, 1, at - 1)>> \o split(SubSeq(text, at + 1, Len(text)), separator)

Digits == <<"0", "1", "2", "3", "4", "5", "6", "7", "8", "9">>

isDigit(c) == \E d \in DOMAIN Digits : Digits[d] = c

digitValue(c) == (CHOOSE d \in DOMAIN Digits : Digits[d] = c) - 1

RECURSIVE digitsValue(_, _)
\* the value of the leading digits of text, read after acc
digitsValue(text, acc) ==
  IF text = <<>> \/ ~isDigit(Head(text)) THEN acc
  ELSE digitsValue(Tail(text), 10 * acc + digitValue(Head(text)))

RECURSIVE parseInt(_)
\* parseInt(text): leading white space and a sign are skipped, then the
\* digits up to the first character that is not one are read; NaN without one
parseInt(text) ==
  IF text # <<>> /\ Head(text) = " " THEN parseInt(Tail(text))
  ELSE LET unsigned == IF text # <<>> /\ Head(text) = "+" THEN Tail(text) ELSE text
       IN IF unsigned = <<>> \/ ~isDigit(Head(unsigned)) THEN [isNaN |-> TRUE, value |-> 0]
          ELSE [isNaN |-> FALSE, value |-> digitsValue(unsigned, 0)]

Bearer == <<"B", "e", "a", "r", "e", "r", " ">>

\* const isAuthenticated = (req, res, next) => ...: whether next() is called,
\* and req.user.id as the handler sees it
isAuthenticated(request) ==
  IF request.session # null
  THEN [next |-> TRUE, user |-> request.session]
  ELSE LET authHeader == request.authorization
           token == substring(authHeader, Len(Bearer))
           parts == split(token, "-")
           userId == parseInt(parts[2])
       IN IF /\ authHeader # Absent /\ startsWith(authHeader, Bearer)
             /\ token # <<>> /\ startsWith(token, <<"u", "s", "e", "r", "-">>)
             /\ Len(parts) >= 2
             /\ ~userId.isNaN
          THEN [next |-> TRUE, user |-> userId.value]
          ELSE [next |-> FALSE, user |-> null]

\* Authorization headers a client may send
AuthHeaders ==
  { Absent,
    Bearer \o <<"u", "s", "e", "r", "-", "7">>,
    Bearer \o <<"u", "s", "e", "r", "-", "1", "2", "-", "9", "9">>,
    Bearer \o <<"u", "s", "e", "r", "-", "7", "x">>,
    Bearer \o <<"u", "s", "e", "r", "-">>,
    Bearer \o <<"u", "s", "e", "r", "-", "x", "-", "7">>,
    Bearer \o <<"a", "d", "m", "i", "n", "-", "7">>,
    <<"B", "a", "s", "i", "c", " ", "u", "s", "e", "r", "-", "7">>,
    <<"u", "s", "e", "r", "-", "7">> }

\* the session of the request: none, or the logged-in user 3
Sessions == {null, 3}

\* PUT /api/plot-structure-sections/:id behind isAuthenticated
GuardedUpdate ==
  /\ hist.updates < MaxUpdates
  /\ \E session \in Sessions, authorization \in AuthHeaders, id \in SectionIds,
        content \in Drafts :
       LET request == [session |-> session, authorization |-> authorization, user |-> null]
           auth == isAuthenticated(request)
       IN /\ req' = [request EXCEPT !.user = auth.user]
          /\ IF auth.next
             THEN PUT_plot_structure_sections(id, [content |-> content], TRUE)
             ELSE /\ resp' = Response("PUT /api/plot-structure-sections/:id", 401, NoRow)
                  /\ UNCHANGED store
  /\ hist' = [hist EXCEPT !.updates = @ + 1]
  /\ UNCHANGED <<impl, calls, queryClient, editor, templates, seed, client>>

\* GET /api/plot-structures/:structureId/sections behind isAuthenticated
GuardedList ==
  /\ \E session \in Sessions, authorization \in AuthHeaders, structureId \in OwnerIds :
       LET request == [session |-> session, authorization |-> authorization, user |-> null]
           auth == isAuthenticated(request)
       IN /\ req' = [request EXCEPT !.user = auth.user]
          /\ IF auth.next
             THEN GET_plot_structure_sections(structureId, TRUE)
             ELSE /\ resp' = Response("GET /api/plot-structures/:structureId/sections",
                                      401, NoRow)
                  /\ UNCHANGED store
  /\ UNCHANGED <<impl, calls, queryClient, editor, templates, seed, client, hist>>

----------------------------------------------------------------------------
(* server/init-plot-templates.ts: initPlotTemplates, one step per awaited   *)
(* database call.  `up` is FALSE when the call throws.  The routine runs    *)
(* once per process start; the runs follow one another.                     *)

Runs == 1..MaxRuns

ReadyRun == [pc |-> "ready", existing |-> null, inserted |-> 0, log |-> "none"]

SeededRun == [pc |-> "done", existing |-> 0, inserted |-> Len(plotTemplates), log |-> "added"]

TemplateRow(id, template) ==
  [id |-> id,
   templateType |-> template.templateType,
   name |-> template.name,
   sections |-> template.sections,
   isDefault |-> template.isDefault]

\* the seed loop without its emptiness check
shouldSeed_always(existingTemplates) == TRUE

\* existingTemplates.length === 0
shouldSeed(existingTemplates) == Len(existingTemplates) = 0

\* a catch block that throws the error on
initPlotTemplates_catch_rethrow(run) == [run EXCEPT !.pc = "threw"]

\* catch (error) { log(...); console.error(...) }: the routine returns
initPlotTemplates_catch(run) == [run EXCEPT !.pc = "done", !.log = "error"]

\* const existingTemplates = await db.select().from(plotStructureTemplates)
initPlotTemplates_select(r, up) ==
  /\ seed[r].pc = "ready"
  /\ \A q \in Runs : q < r => seed[q].pc = "done"   \* one run at a time, at startup
  /\ seed' = [seed EXCEPT ![r] =
       IF ~up THEN initPlotTemplates_catch(@)
       ELSE IF shouldSeed(templates)
            THEN [@ EXCEPT !.pc = "insert", !.existing = Len(templates)]
            ELSE [@ EXCEPT !.pc = "done", !.existing = Len(templates), !.log = "found"]]
  /\ UNCHANGED <<impl, calls, queryClient, req, editor, templates, store, client, resp, hist>>

\* await db.insert(plotStructureTemplates).values(template), the next of the loop
initPlotTemplates_insert(r, up) ==
  /\ seed[r].pc = "insert"
  /\ IF ~up
     THEN /\ seed' = [seed EXCEPT ![r] = initPlotTemplates_catch(@)]
          /\ UNCHANGED templates
     ELSE LET n == seed[r].inserted + 1
          IN /\ templates' = Append(templates, TemplateRow(Len(templates) + 1, plotTemplates[n]))
             /\ seed' = [seed EXCEPT ![r] =
                  IF n = Len(plotTemplates)
                  THEN [@ EXCEPT !.pc = "done", !.inserted = n, !.log = "added"]
                  ELSE [@ EXCEPT !.inserted = n]]
  /\ UNCHANGED <<impl, calls, queryClient, req, editor, store, client, resp, hist>>

SeedSelect == \E r \in Runs, up \in BOOLEAN : initPlotTemplates_select(r, up)

SeedInsert == \E r \in Runs, up \in BOOLEAN : initPlotTemplates_insert(r, up)

----------------------------------------------------------------------------
(* export const storage = new DatabaseStorage(); the catalog is seeded at   *)
(* startup, before the routes are served                                    *)

\* edits: the inputs to the editor in any tab, typing and Save clicks
NoHistory == [attempts |-> 0, updates |-> 0, edits |-> 0]

Init ==
  /\ impl = "db"
  /\ now = 0
  /\ templates = SeededCatalog
  /\ structures = <<>>
  /\ sections = <<>>
  /\ structureSeq = 1
  /\ sectionSeq = 1
  /\ client = IdleClient
  /\ editor = ClosedEditor
  /\ resp = Response("none", 0, NoRow)
  /\ seed = [r \in Runs |-> IF r = 1 THEN SeededRun ELSE ReadyRun]
  /\ calls = NoCalls
  /\ queryClient = FreshQueryClient
  /\ req = NoRequest
  /\ hist = NoHistory

\* the Section Content Store behind the section routes
Next ==
  \/ ListSections
  \/ CreateSection
  \/ UpdateSection
  \/ DeleteSection

Spec == Init /\ [][Next]_vars

\* the Instance Store behind the plot-structure routes
NextInstances ==
  \/ ListInstances
  \/ CreateInstance
  \/ UpdateInstance
  \/ DeleteInstance

SpecInstances == Init /\ [][NextInstances]_vars

\* the plot-structure page: apply a template, delete a structure
NextMat ==
  \/ ApplyTemplate
  \/ MaterializeSection
  \/ Rollback
  \/ DeleteInstance

SpecMat == Init /\ [][NextMat]_vars

\* first boot on an empty catalog, and later runs of the seed routine
InitSeed ==
  /\ impl = "db"
  /\ now = 0
  /\ templates = <<>>
  /\ structures = <<>>
  /\ sections = <<>>
  /\ structureSeq = 1
  /\ sectionSeq = 1
  /\ client = IdleClient
  /\ editor = ClosedEditor
  /\ resp = Response("none", 0, NoRow)
  /\ seed = [r \in Runs |-> ReadyRun]
  /\ calls = NoCalls
  /\ queryClient = FreshQueryClient
  /\ req = NoRequest
  /\ hist = NoHistory

NextSeed ==
  \/ SeedSelect
  \/ SeedInsert

SpecSeed == InitSeed /\ [][NextSeed]_vars

\* the catalog: the seed routine's runs and the template routes
NextCatalog ==
  \/ SeedSelect
  \/ SeedInsert
  \/ ListTemplates
  \/ GetTemplate

SpecCatalog == InitSeed /\ [][NextCatalog]_vars

RECURSIVE MaterializedSections(_, _, _, _)
\* the rows a materialization of `entries` under structureId adds to tbl
MaterializedSections(tbl, structureId, entries, t) ==
  IF entries = <<>> THEN tbl
  ELSE MaterializedSections(
         Db_createPlotStructureSection(
           tbl, Cardinality(DOMAIN tbl) + 1,
           [plotStructureId |-> structureId, sectionKey |-> Head(entries).key,
            title |-> Head(entries).title, content |-> "",
            order |-> Head(entries).order], t).tbl,
         structureId, Tail(entries), t + 1)

\* the Freeform template applied to project 42, then to project 7
FreshStore ==
  LET entries == JSON_parse(tpl_freeform.sections).value
      n == Len(entries)
      body(p) == [projectId |-> p, templateId |-> Len(plotTemplates),
                  name |-> tpl_freeform.name, order |-> 1]
      s1 == Db_createPlotStructure(<<>>, 1, body(42), 0).tbl
      t1 == MaterializedSections(<<>>, 1, entries, 1)
      s2 == Db_createPlotStructure(s1, 2, body(7), n + 1).tbl
      t2 == MaterializedSections(t1, 2, entries, n + 2)
  IN [structures |-> s2, sections |-> t2, now |-> 2 * n + 2,
      structureSeq |-> 3, sectionSeq |-> 2 * n + 1]

\* the editor page, on freshly materialized Instances
InitEditor ==
  /\ impl = "db"
  /\ now = FreshStore.now
  /\ templates = SeededCatalog
  /\ structures = FreshStore.structures
  /\ sections = FreshStore.sections
  /\ structureSeq = FreshStore.structureSeq
  /\ sectionSeq = FreshStore.sectionSeq
  /\ client = IdleClient
  /\ editor = ClosedEditor
  /\ resp = Response("none", 0, NoRow)
  /\ seed = [r \in Runs |-> IF r = 1 THEN SeededRun ELSE ReadyRun]
  /\ calls = NoCalls
  /\ queryClient = FreshQueryClient
  /\ req = NoRequest
  /\ hist = NoHistory

\* one tab with the editor open
NextEditor ==
  \/ OpenEditor
  \/ TypeContent
  \/ SavingTimeout
  \/ DebounceFire
  \/ ManualSave
  \/ SelectSection
  \/ SettleUpdate

SpecEditor == InitEditor /\ [][NextEditor]_vars

\* the editor open in two tabs
NextTabs ==
  \/ OpenEditor
  \/ TypeContent
  \/ SavingTimeout
  \/ DebounceFire
  \/ ManualSave
  \/ SelectSection
  \/ SettleUpdate
  \/ OtherTabSave

SpecTabs == InitEditor /\ [][NextTabs]_vars

\* one tab and a store without errors; timers expire and requests are answered
NextEditorLive ==
  \/ OpenEditor
  \/ TypeContent
  \/ SavingTimeout
  \/ DebounceFire
  \/ ManualSave
  \/ SelectSection
  \/ SettleUpdateOk

SpecEditorLive ==
  /\ InitEditor
  /\ [][NextEditorLive]_vars
  /\ WF_vars(SavingTimeout)
  /\ WF_vars(DebounceFire)
  /\ WF_vars(SettleUpdateOk)

\* the (edited) Freeform template applied once more to project 42
ApplyFreeform ==
  \E up \in BOOLEAN : createFromTemplate_begin(42, Len(plotTemplates), up)

\* either storage, holding freshly materialized Instances
InitCalls ==
  /\ impl \in {"mem", "db"}
  /\ now = FreshStore.now
  /\ templates = SeededCatalog
  /\ structures = FreshStore.structures
  /\ sections = FreshStore.sections
  /\ structureSeq = FreshStore.structureSeq
  /\ sectionSeq = FreshStore.sectionSeq
  /\ client = IdleClient
  /\ editor = ClosedEditor
  /\ resp = Response("none", 0, NoRow)
  /\ seed = [r \in Runs |-> IF r = 1 THEN SeededRun ELSE ReadyRun]
  /\ calls = NoCalls
  /\ queryClient = FreshQueryClient
  /\ req = NoRequest
  /\ hist = NoHistory

\* two callers of the storage, each updating a Section once
NextCalls ==
  \/ CallUpdate
  \/ ResumeUpdate

SpecCalls == InitCalls /\ [][NextCalls]_vars

\* the plot-structure page: editors shown, closed and dropped, queries invalidated
NextPage ==
  \/ ShowEditor
  \/ HideEditor
  \/ CloseEditor
  \/ CloseTimeout
  \/ Invalidate

SpecPage == InitEditor /\ [][NextPage]_vars

\* requests to the guarded section routes
NextGuarded ==
  \/ GuardedUpdate
  \/ GuardedList

SpecGuarded == InitEditor /\ [][NextGuarded]_vars

\* the catalog edited while Instances of Freeform exist
NextTemplateEdit ==
  \/ UpdateTemplate
  \/ ApplyFreeform
  \/ MaterializeSection
  \/ Rollback

SpecTemplateEdit == InitEditor /\ [][NextTemplateEdit]_vars

----------------------------------------------------------------------------
(* Properties *)

Owned(structureId) ==
  {k \in DOMAIN sections : sections[k].plotStructureId = structureId}

Entries(templateId) == JSON_parse(TemplateById(templateId).sections).value

Materialized ==
  /\ client.pc = "idle"
  /\ client.outcome = "created"
  /\ client.structureId \in DOMAIN structures

\* C1: when createFromTemplate has returned an Instance of a Template with N
\* sections, exactly N Section rows are owned by that Instance, their
\* sectionKeys are the Template's keys, each carries its entry's title and
\* order, and each has content "".
C1_MaterializationCompleteness ==
  Materialized =>
    LET entries == Entries(client.templateId)
        owned == Owned(client.structureId)
    IN /\ structures[client.structureId].templateId = client.templateId
       /\ structures[client.structureId].projectId = client.projectId
       /\ Cardinality(owned) = Len(entries)
       /\ {sections[k].sectionKey : k \in owned} = {entries[i].key : i \in DOMAIN entries}
       /\ \A i \in DOMAIN entries :
            \E k \in owned : /\ sections[k].sectionKey = entries[i].key
                             /\ sections[k].title = entries[i].title
                             /\ sections[k].order = entries[i].order
                             /\ sections[k].content = ""

\* Three Act Structure (9 sections) applied to project 42
C1_Witness ==
  /\ Materialized
  /\ client.projectId = 42
  /\ TemplateById(client.templateId).templateType = "three_act"
  /\ Cardinality(Owned(client.structureId)) = 9

C3_NoOrphanedSections ==
  \A k \in DOMAIN sections : sections[k].plotStructureId \in DOMAIN structures

SeedRowsAreBuiltIns ==
  /\ Len(templates) = Len(plotTemplates)
  /\ \A i \in DOMAIN templates :
       templates[i] = TemplateRow(templates[i].id, plotTemplates[i])
  /\ \A i, j \in DOMAIN templates : i # j => templates[i].id # templates[j].id

\* C4: from an empty catalog, once one or more runs of initPlotTemplates have
\* completed and none of them threw, the catalog holds exactly one row per
\* built-in template; a run that found a row inserted none.
C4_SeedingIdempotence ==
  /\ ( /\ \E r \in Runs : seed[r].pc = "done"
       /\ \A r \in Runs : seed[r].pc # "insert" /\ seed[r].log # "error" )
     => SeedRowsAreBuiltIns
  /\ \A r \in Runs : (seed[r].pc # "ready" /\ seed[r].existing > 0) => seed[r].inserted = 0

\* a second run completed on the seeded catalog
C4_Witness ==
  /\ seed[1].log = "added"
  /\ seed[2].log = "found"
  /\ seed[2].existing = 8
  /\ Len(templates) = 8

\* C5: updateSection(id, partial) with partial among {title, content, order}
\* sets the fields partial names, keeps every other field of the row except
\* updatedAt, which takes the time of the update, and touches no other row.
C5_PartialUpdate ==
  \A id \in DOMAIN sections : \A partial \in EditBodies :
    \A r \in {Db_updatePlotStructureSection(sections, id, partial, now),
              Mem_updatePlotStructureSection(sections, id, partial, now),
              updatePlotStructureSection(id, partial)} :
    LET old == sections[id]
    IN /\ r.found
       /\ r.tbl[id] = r.row
       /\ \A f \in DOMAIN old \ {"updatedAt"} :
            r.row[f] = IF f \in DOMAIN partial THEN partial[f] ELSE old[f]
       /\ r.row.updatedAt = now
       /\ r.row.updatedAt > old.updatedAt
       /\ \A k \in DOMAIN sections \ {id} : r.tbl[k] = sections[k]
       /\ DOMAIN r.tbl = DOMAIN sections

\* a content-only edit was stored: title and order as created, updatedAt later
C5_Witness ==
  /\ resp.route = "PUT /api/plot-structure-sections/:id"
  /\ resp.status = 200
  /\ resp.body.id \in DOMAIN sections
  /\ LET row == sections[resp.body.id]
     IN /\ row.content = "Opening scene."
        /\ row.title = "Section 1"
        /\ row.order = 2
        /\ row.updatedAt > row.createdAt

\* C6: no request changes the templateId of an Instance.
C6_TemplateIdNeverChanges ==
  [][\A id \in DOMAIN structures \cap DOMAIN structures' :
       structures'[id].templateId = structures[id].templateId]_vars

\* C7: no request changes the id, plotStructureId or sectionKey of a Section.
C7_SectionIdentityStable ==
  [][\A id \in DOMAIN sections \cap DOMAIN sections' :
       /\ sections'[id].id = sections[id].id
       /\ sections'[id].plotStructureId = sections[id].plotStructureId
       /\ sections'[id].sectionKey = sections[id].sectionKey]_vars

\* C8: no two Section rows share plotStructureId and sectionKey.
C8_OneSectionPerKey ==
  \A a, b \in DOMAIN sections :
    (a # b /\ sections[a].plotStructureId = sections[b].plotStructureId)
      => sections[a].sectionKey # sections[b].sectionKey

\* C9: Section rows are added or removed only by a step of createFromTemplate
\* or by the deletion of an Instance.
C9_SectionsOnlyViaInstance ==
  [][DOMAIN sections' # DOMAIN sections =>
       \/ client' # client
       \/ resp'.route = "DELETE /api/plot-structures/:id"]_vars

IsListingOf(out, structureId) ==
  /\ Len(out) = Cardinality(Owned(structureId))
  /\ {out[i] : i \in DOMAIN out} = {sections[k] : k \in Owned(structureId)}
  /\ \A i, j \in DOMAIN out : i < j => out[i].order <= out[j].order

\* C10: getPlotStructureSections(id) of either storage returns the Sections
\* owned by that Instance, each once, by ascending order.
C10_ListSectionsSorted ==
  \A structureId \in OwnerIds :
    /\ \A out \in Db_getPlotStructureSections(sections, structureId) :
         IsListingOf(out, structureId)
    /\ \A out \in Mem_getPlotStructureSections(sections, structureId) :
         IsListingOf(out, structureId)

\* the sections of Instance 1 were listed, stored in descending order
C10_Witness ==
  /\ resp.route = "GET /api/plot-structures/:structureId/sections"
  /\ resp.status = 200
  /\ Owned(1) = {1, 2}
  /\ sections[1].order > sections[2].order

IsInstanceListingOf(out, projectId) ==
  LET mine == {k \in DOMAIN structures : structures[k].projectId = projectId}
  IN /\ Len(out) = Cardinality(mine)
     /\ {out[i] : i \in DOMAIN out} = {structures[k] : k \in mine}
     /\ \A i, j \in DOMAIN out : i < j => out[i].order <= out[j].order

\* C11: getProjectPlotStructures(projectId) returns the Instances of that
\* project, each once, by ascending order.
C11_ListInstancesOrdered ==
  \A projectId \in Projects :
    \A out \in getProjectPlotStructures(projectId) : IsInstanceListingOf(out, projectId)

\* C12: every Instance in the store was created from a Template of the
\* catalog; a create naming any other templateId leaves no Instance.
C12_UnknownTemplateCreatesNothing ==
  \A k \in DOMAIN structures : structures[k].templateId \in CatalogIds

\* C13: an update of a Section id that is not in the store finds nothing in
\* either storage, is answered 404 by the route, adds no row and leaves
\* every Section as it was.
C13_UpdateMissingSection ==
  [][\A id \in SectionIds \ DOMAIN sections : \A body \in PutSectionBodies :
       /\ \A r \in {Db_updatePlotStructureSection(sections, id, body, now),
                     Mem_updatePlotStructureSection(sections, id, body, now)} :
            ~r.found /\ r.row = NoRow /\ r.tbl = sections
       /\ PUT_plot_structure_sections(id, body, TRUE) =>
            /\ resp'.status = 404
            /\ resp'.body.id = null
            /\ sections' = sections]_vars

\* Section 2 was updated while only Section 1 exists: 404, Section 1 untouched
C13_Witness ==
  /\ resp.route = "PUT /api/plot-structure-sections/:id"
  /\ resp.status = 404
  /\ DOMAIN sections = {1}
  /\ sections[1].updatedAt = sections[1].createdAt

\* C14: DELETE /api/plot-structures/:id answers 204 when an Instance has that
\* id and 404 when none has, a repeated delete included; afterwards no
\* Instance has the id.
C14_DeleteInstanceAnswers ==
  [][\A id \in StructureIds :
       DELETE_plot_structures(id, TRUE) =>
         /\ resp'.status = (IF id \in DOMAIN structures THEN 204 ELSE 404)
         /\ deletePlotStructure(id).result = (id \in DOMAIN structures)
         /\ id \notin DOMAIN structures']_vars

\* C15: a step changes the catalog only if it is an insert of a run of the
\* seed routine that found the catalog empty (the step then appends one
\* built-in and no response is sent); no request changes, adds or removes a
\* Template row.
C15_TemplatesImmutable ==
  [][templates' # templates =>
       /\ resp' = resp
       /\ \E r \in Runs : /\ seed[r].pc = "insert"
                           /\ seed[r].existing = 0
                           /\ seed'[r].inserted = seed[r].inserted + 1
       /\ \E n \in DOMAIN plotTemplates :
            templates' = Append(templates, TemplateRow(Len(templates) + 1, plotTemplates[n]))]_vars

\* template 3 was served from the seeded catalog, which is still the seeded one
C15_Witness ==
  /\ resp.route = "GET /api/plot-templates/:id"
  /\ resp.status = 200
  /\ resp.body.id = 3
  /\ templates = SeededCatalog
  /\ seed[1].log = "added"

\* C18: a run of initPlotTemplates whose first database call threw has
\* returned, with the error logged and nothing inserted; while every run so
\* far met an unavailable store the catalog is empty.
C18_SeedingFailureContained ==
  /\ \A r \in Runs :
       (seed[r].pc # "ready" /\ seed[r].existing = null) =>
         /\ seed[r].pc = "done"
         /\ seed[r].log = "error"
         /\ seed[r].inserted = 0
  /\ (\A r \in Runs : seed[r].pc # "ready" => seed[r].existing = null)
       => templates = <<>>

\* the first run met an unavailable store; the second has not started
C18_Witness ==
  /\ seed[1].pc = "done"
  /\ seed[1].log = "error"
  /\ seed[1].existing = null
  /\ seed[2].pc = "ready"
  /\ templates = <<>>

\* C20: a create request whose body fails insertPlotStructureSectionSchema,
\* and an update request whose body gives a field a value of the wrong type,
\* are answered 400 and leave the store as it was.
C20_ValidationAtBoundary ==
  [][/\ \A body \in PostSectionBodies :
          (~insertPlotStructureSectionSchema_ok(body)
             /\ POST_plot_structure_sections(body, TRUE))
            => (resp'.status = 400 /\ sections' = sections)
     /\ \A id \in SectionIds : \A body \in MalformedSectionBodies :
          PUT_plot_structure_sections(id, body, TRUE)
            => (resp'.status = 400 /\ sections' = sections)]_vars

\* C16: a write the debounce timer issues is for the section that is active
\* when it is issued, and every write the editor issues carries the id and
\* the edited content of the section it names.
C16_ScopedPendingWrites ==
  [][\A q \in editor'.inflight \ editor.inflight :
       /\ ~q.manual => q.sectionKey = editor.activeSection
       /\ \E i \in DOMAIN editor.sections :
            /\ editor.sections[i].sectionKey = q.sectionKey
            /\ editor.sections[i].id = q.id
       /\ q.content = editor.editedContent[q.sectionKey]]_vars

\* the contents two tabs send
Contents == Drafts \cup {"Opening scene."}

\* C17: of two content updates of one Section, whichever arrives second is
\* the one the row holds afterwards, with the other fields as they were, and
\* both find the row and are answered with it: neither is rejected, nothing
\* of the first is merged into the second.
C17_LastWriteWins ==
  \A id \in Owned(1) : \A c1 \in Contents : \A c2 \in Contents \ {c1} :
    LET first == updatePlotStructureSection(id, [content |-> c1])
        second == Db_updatePlotStructureSection(first.tbl, id, [content |-> c2], now + 1)
        mfirst == Mem_updatePlotStructureSection(sections, id, [content |-> c1], now)
        msecond == Mem_updatePlotStructureSection(mfirst.tbl, id, [content |-> c2], now + 1)
    IN /\ first.found /\ second.found /\ mfirst.found /\ msecond.found
       /\ first.row.content = c1 /\ mfirst.row.content = c1
       /\ second.row = [sections[id] EXCEPT !.content = c2, !.updatedAt = now + 1]
       /\ second.tbl[id] = second.row
       /\ msecond.row = second.row /\ msecond.tbl[id] = second.row

\* the other tab's write to Section 1 arrived, then the editor's autosave of
\* the same Section: the row holds the autosave's text
C17_Witness ==
  /\ hist.edits = 2
  /\ editor.inflight = {}
  /\ 1 \in DOMAIN sections
  /\ sections[1].content = "Once"
  /\ sections[1].updatedAt = now - 1
  /\ now = FreshStore.now + 2
  /\ \A k \in DOMAIN sections \ {1} : sections[k].content = ""

\* C19: on an Instance whose Sections all have content "", after an update
\* of one Section with { content: c } the listings of either storage show c
\* on that Section and every other Section, of this and of every other
\* Instance, as it was.
C19_EditTouchesOneSection ==
  \A sid \in DOMAIN structures :
    (\A k \in Owned(sid) : sections[k].content = "") =>
      \A id \in Owned(sid) : \A c \in Drafts :
        \A r \in {Db_updatePlotStructureSection(sections, id, [content |-> c], now),
                  Mem_updatePlotStructureSection(sections, id, [content |-> c], now)} :
          \A other \in DOMAIN structures :
            \A out \in Db_getPlotStructureSections(r.tbl, other)
                        \cup Mem_getPlotStructureSections(r.tbl, other) :
              /\ Len(out) = Cardinality(Owned(other))
              /\ \A i \in DOMAIN out :
                   IF out[i].id = id
                   THEN out[i] = [sections[id] EXCEPT !.content = c, !.updatedAt = now]
                   ELSE /\ out[i] = sections[out[i].id]
                        /\ other = sid => out[i].content = ""

\* "Once" was saved into Section 1 of the fresh Instance 1; nothing else moved
C19_Witness ==
  /\ resp.route = "PUT /api/plot-structure-sections/:id"
  /\ resp.status = 200
  /\ resp.body.id = 1
  /\ sections[1].content = "Once"
  /\ \A k \in DOMAIN sections \ {1} :
       sections[k].content = "" /\ sections[k].updatedAt = sections[k].createdAt

\* C21: the section list of every built-in template parses, its keys are
\* pairwise distinct and the order of the entry at position j is j; so the
\* list a materialization walks, sorted by order, is the template's list, and
\* each Section it has created so far is found by its key.
C21_BuiltInSectionsWellFormed ==
  /\ \A i \in DOMAIN plotTemplates :
       LET parse == JSON_parse(plotTemplates[i].sections)
           list == parse.value
       IN /\ parse.ok
          /\ WellFormedEntries(list)
          /\ \A j, k \in DOMAIN list : j # k => list[j].key # list[k].key
          /\ \A j \in DOMAIN list : list[j].order = j
  /\ client.pc = "sections" =>
       /\ client.entries = Entries(client.templateId)
       /\ \A i \in DOMAIN client.created :
            \A j \in DOMAIN client.entries :
              (sections[client.created[i]].sectionKey = client.entries[j].key) <=> (i = j)

\* Save the Cat, the longest list: 14 of its 15 sections are created
C21_Witness ==
  /\ client.pc = "sections"
  /\ TemplateById(client.templateId).templateType = "save_the_cat"
  /\ Len(client.entries) = 15
  /\ Len(client.created) = 14

\* C22: an update of a Template's row, by either storage, leaves every
\* Instance row and every Section row as it was; and once the Freeform
\* template has been edited, and applied again, the Sections of the Instances
\* that existed before are still the rows their materialization created.
C22_NoRetroactiveSync ==
  /\ \A id \in 1..(Len(plotTemplates) + 1) : \A templateUpdate \in TemplateUpdates :
       \A r \in {Mem_updatePlotStructureTemplate(Storage, id, templateUpdate, now),
                 Db_updatePlotStructureTemplate(Storage, id, templateUpdate, now)} :
         /\ r.st.sections = sections
         /\ r.st.structures = structures
         /\ r.found <=> id \in CatalogIds
  /\ \A k \in DOMAIN FreshStore.sections :
       k \in DOMAIN sections /\ sections[k] = FreshStore.sections[k]
  /\ \A sid \in DOMAIN FreshStore.structures :
       Owned(sid) = {k \in DOMAIN FreshStore.sections :
                       FreshStore.sections[k].plotStructureId = sid}

\* Freeform was given a fourth section and applied again: the new Instance
\* has four Sections, Instances 1 and 2 still have their three
C22_Witness ==
  /\ Materialized
  /\ Len(Entries(Len(plotTemplates))) = 4
  /\ Cardinality(Owned(client.structureId)) = 4
  /\ Cardinality(Owned(1)) = 3
  /\ Cardinality(Owned(2)) = 3

\* the autosave requests of the editor that have left
Autosaves(e) == {q \in e.inflight : ~q.manual}

\* C23: an edit issues no write, it (re)starts the one timer with its own
\* content and the id of the Section it was typed into; the expiry of the
\* timer issues exactly one write, with the content and the id of the last
\* edit of the burst, and leaves no call waiting; no other step of the editor
\* issues an autosave write.
C23_DebounceCoalescing ==
  [][ /\ (editor'.debounced.armed /\ editor'.debounced # editor.debounced) =>
           /\ hist'.edits = hist.edits + 1
           /\ editor'.inflight = editor.inflight
           /\ editor'.debounced.sectionKey = editor.activeSection
           /\ editor'.debounced.sectionId = activeSectionData(editor).id
           /\ editor'.debounced.content = editor'.editedContent[editor.activeSection]
           /\ editor'.debounced.content # editor.editedContent[editor.activeSection]
      /\ (editor.debounced.armed /\ ~editor'.debounced.armed) =>
           /\ Cardinality(Autosaves(editor')) = Cardinality(Autosaves(editor)) + 1
           /\ \E q \in Autosaves(editor') \ Autosaves(editor) :
                /\ q.id = editor.debounced.sectionId
                /\ q.content = editor.debounced.content
                /\ q.content = editor.editedContent[editor.debounced.sectionKey]
                /\ sections[q.id].sectionKey = editor.debounced.sectionKey
           /\ editor'.inflight \ Autosaves(editor') = editor.inflight \ Autosaves(editor)
      /\ (editor'.debounced = editor.debounced) =>
           Autosaves(editor') \subseteq Autosaves(editor)
    ]_vars

\* "Once upon a time" then "Once" typed into section_1 within the delay: the
\* one write that left carries "Once" and the id of section_1
C23_Witness ==
  /\ hist.edits = 2
  /\ editor.activeSection = "section_1"
  /\ editor.editedContent["section_1"] = "Once"
  /\ ~editor.debounced.armed
  /\ ~editor.isSaving
  /\ Cardinality(editor.inflight) = 1
  /\ \E q \in editor.inflight : q.id = 1 /\ q.content = "Once" /\ ~q.manual /\ q.issued = 2
  /\ \A k \in DOMAIN sections : sections[k].content = ""

\* C24: whenever no run of initPlotTemplates is in its insert loop, the
\* catalog is empty or holds the eight built-in templates; and no run has
\* found, and left as it is, a catalog of fewer than eight rows.
C24_SeedingAllOrNothing ==
  /\ (\A r \in Runs : seed[r].pc # "insert") =>
       (templates = <<>> \/ SeedRowsAreBuiltIns)
  /\ \A r \in Runs :
       seed[r].log = "found" => seed[r].existing = Len(plotTemplates)

\* the store holds what the editor shows for the Section with this key
Stored(sectionKey) ==
  \A i \in DOMAIN editor.sections :
    editor.sections[i].sectionKey = sectionKey =>
      sections[editor.sections[i].id].content = editor.editedContent[sectionKey]

\* C25: with a store that answers every request, once the user has typed
\* into one Section, then into another while the first one's timer was still
\* running, and types no more, the store eventually holds the last typed
\* content of both Sections.
C25_NoLostEdits ==
  ( /\ hist.edits = MaxEdits
    /\ editor.debounced.armed
    /\ \E sectionKey \in DOMAIN editor.editedContent :
         /\ sectionKey # editor.debounced.sectionKey
         /\ editor.editedContent[sectionKey] # "" )
  ~> (\A sectionKey \in DOMAIN editor.editedContent : Stored(sectionKey))

\* C26: in one tab, where the store's content of a Section is the content it
\* last acknowledged to the editor, a Section whose save status is 'saved'
\* has in the editor the content the store holds.
C26_SaveIndicatorSound ==
  \A sectionKey \in DOMAIN editor.saveStatus :
    editor.saveStatus[sectionKey] = "saved" => Stored(sectionKey)

\* C27: when both callers have completed an update of the same Section, one
\* setting only the title and the other only the content, the stored row has
\* the new title and the new content.
C27_DisjointUpdatesSurvive ==
  \A c1, c2 \in Callers :
    ( /\ calls[c1].pc = "done" /\ calls[c2].pc = "done"
      /\ calls[c1].id = calls[c2].id
      /\ DOMAIN calls[c1].sectionUpdate = {"title"}
      /\ DOMAIN calls[c2].sectionUpdate = {"content"} )
    => /\ calls[c1].found /\ calls[c2].found
       /\ sections[calls[c1].id].title = calls[c1].sectionUpdate.title
       /\ sections[calls[c1].id].content = calls[c2].sectionUpdate.content

\* C28: whenever neither component shows an editor,
\* queryClient.invalidateQueries is the original function; and an
\* invalidation is suppressed only if the first element of its query key
\* contains 'plot-structure-sections' and an editor is shown.
C28_OverrideAlwaysUndone ==
  /\ (\A component \in EditorComponents : ~queryClient[component].shown) =>
       queryClient.invalidateQueries = <<>>
  /\ \A key \in QueryKeys :
       invalidateQueries(queryClient, queryClient.invalidateQueries, key) = "suppressed" =>
         /\ includes(key, "plot-structure-sections")
         /\ \E component \in EditorComponents : queryClient[component].shown

\* C29: on the same rows and the same arguments, the methods of MemStorage
\* and of DatabaseStorage over Instances and Sections give the same result
\* and leave the same rows: creates with the same defaulted fields, updates
\* and deletes with the same found / boolean outcome, lists in the same order.
C29_StoragesEquivalent ==
  /\ \A body \in {b \in PostStructureBodies : insertPlotStructureSchema_ok(b)} :
       Mem_createPlotStructure(structures, structureSeq, body, now)
         = Db_createPlotStructure(structures, structureSeq, body, now)
  /\ \A id \in StructureIds :
       /\ \A body \in PutStructureBodies :
            Mem_updatePlotStructure(structures, id, body, now)
              = Db_updatePlotStructure(structures, id, body, now)
       /\ Mem_deletePlotStructure(structures, id) = Db_deletePlotStructure(structures, id)
  /\ \A projectId \in Projects :
       Mem_getProjectPlotStructures(structures, projectId)
         = Db_getProjectPlotStructures(structures, projectId)
  /\ \A body \in {b \in PostSectionBodies : insertPlotStructureSectionSchema_ok(b)} :
       Mem_createPlotStructureSection(sections, sectionSeq, body, now)
         = Db_createPlotStructureSection(sections, sectionSeq, body, now)
  /\ \A id \in SectionIds :
       /\ \A body \in PutSectionBodies :
            Mem_updatePlotStructureSection(sections, id, body, now)
              = Db_updatePlotStructureSection(sections, id, body, now)
       /\ Mem_deletePlotStructureSection(sections, id)
            = Db_deletePlotStructureSection(sections, id)
  /\ \A plotStructureId \in OwnerIds :
       Mem_getPlotStructureSections(sections, plotStructureId)
         = Db_getPlotStructureSections(sections, plotStructureId)

\* the Authorization header is "Bearer user-<integer>" or "Bearer user-<integer>-..."
TokenForm(authorization) ==
  /\ startsWith(authorization, Bearer)
  /\ LET parts == split(substring(authorization, Len(Bearer)), "-")
     IN /\ Len(parts) >= 2
        /\ parts[1] = <<"u", "s", "e", "r">>
        /\ parts[2] # <<>>
        /\ \A i \in DOMAIN parts[2] : isDigit(parts[2][i])

\* C30: a request to a guarded route with no session user and no Bearer
\* token of the form user-<integer>[-...] is answered 401 and leaves the
\* store as it was; any other request reaches the handler, with req.user.id
\* the session user's id or else the integer of the token.
C30_GuardedRoutes ==
  [][ IF req'.session = null /\ ~TokenForm(req'.authorization)
      THEN resp'.status = 401 /\ UNCHANGED store
      ELSE /\ resp'.status # 401
           /\ req'.user =
                IF req'.session # null THEN req'.session
                ELSE digitsValue(split(substring(req'.authorization, Len(Bearer)), "-")[2], 0)
    ]_vars

====
